---- MODULE Spec2Model ----
(***************************************************************************)
(* State-machine model of rust_core/src/lib.rs (vexel-weaver string art):  *)
(* the two global cells ORIGINAL_IMAGE and IMAGE_DATA and the three public *)
(* operations process_image, generate_pins and generate_string_art.        *)
(*                                                                         *)
(* Numbers.  f64 values are held in fixed point, as integer multiples of   *)
(* 1/Scale.  The inputs are drawn so that every f64 operation of the       *)
(* modelled paths is exact at that resolution (zoom levels and pin counts  *)
(* are powers of two, the other inputs are multiples of 1/2); the only     *)
(* rounded values are the cos/sin of the circular layout.  Pixel           *)
(* intensities are u8 (0..255), pin indices are 0-based as in the code.    *)
(***************************************************************************)
EXTENDS Integers, Sequences, FiniteSets, TLC

VARIABLES
    ORIGINAL_IMAGE,   \* lib.rs:17  Option<DynamicImage>: None or an image
    IMAGE_DATA,       \* lib.rs:16  Option<GrayImage>: None or an image
    call,             \* the last call of the public API: its arguments and what it returned
    history           \* what the calls so far did to the grid (read by no operation)

vars == <<ORIGINAL_IMAGE, IMAGE_DATA, call, history>>

None == [none |-> TRUE]

-----------------------------------------------------------------------------
(* Bounds of the model *)

MaxStrip == 2        \* the canvases are 1x1, 2x2 and the strips k x 1, k in 2..MaxStrip
MaxLines == 2        \* num_lines ranges over 0..MaxLines
MaxPins == 4         \* pin sequences handed to generate_string_art have 0..MaxPins pins
MaxPinExp == 2       \* generate_pins is asked for 0 or 2^k pins, k in 0..MaxPinExp
MaxFrameHalves == 5  \* generate_pins' width and height range over k/2, k in 1..MaxFrameHalves

-----------------------------------------------------------------------------
(* f64 in fixed point *)

Scale == 2^10

Abs(a) == IF a < 0 THEN -a ELSE a

\* a / b, b > 0, rounded to the nearest multiple of the resolution (exact on
\* the model's inputs).
Quot(a, b) == IF a >= 0 THEN (2 * a + b) \div (2 * b) ELSE -((2 * (-a) + b) \div (2 * b))

FromInt(n) == n * Scale
FDiv(a, b) == Quot(a * Scale, b)
FMul(a, b) == Quot(a * b, Scale)
FMin(a, b) == IF b < a THEN b ELSE a      \* f64::min
FMax(a, b) == IF b > a THEN b ELSE a      \* f64::max

\* `v as u32` on an f64: truncates toward zero, saturates below at 0.
F64AsU32(v) == IF v <= 0 THEN 0 ELSE v \div Scale

\* `v as i32` on an f64: truncates toward zero.
F64AsI32(v) == IF v >= 0 THEN v \div Scale ELSE -((-v) \div Scale)

\* `p as u32` on an i32: a negative p wraps to 2^32 + p, which is at least
\* 2^31; it is held here as 2^31 - 1, above every image dimension.
I32AsU32(p) == IF p >= 0 THEN p ELSE 2147483647

-----------------------------------------------------------------------------
(* Images: [width, height, data], data row-major as in image::ImageBuffer *)

Image(w, h, data) == [width |-> w, height |-> h, data |-> data]

\* Faulty variant of PixelIndex: only the end of the buffer is tested.
PixelIndexUnchecked(image, x, y) ==
    IF /\ x < image.width * image.height
       /\ y < image.height
       /\ y * image.width + x < image.width * image.height
    THEN y * image.width + x + 1
    ELSE 0

\* ImageBuffer::get_pixel_checked / get_pixel_mut_checked: the index of the
\* pixel in data, 0 when (x, y) is outside the image.
PixelIndex(image, x, y) ==
    IF x < image.width /\ y < image.height THEN y * image.width + x + 1 ELSE 0

\* get_pixel on coordinates known to be inside.
GetPixel(image, x, y) == image.data[y * image.width + x + 1]

\* The byte payloads a caller hands to process_image.
Payloads == {"black2x2", "mixed3x2", "corrupt"}

\* image::load_from_memory: the decoded raster (8-bit luma), or None for bytes
\* no decoder recognises.
load_from_memory(image_data) ==
    CASE image_data = "black2x2" -> Image(2, 2, <<0, 0, 0, 0>>)
      [] image_data = "mixed3x2" -> Image(3, 2, <<10, 120, 255, 200, 60, 0>>)
      [] OTHER -> None

-----------------------------------------------------------------------------
(* Inputs *)

\* struct Pin (lib.rs:29-32), both coordinates f64.
Pin(x, y) == [x |-> x, y |-> y]

\* pins[i] for the code's 0-based i.
PinAt(pins, i) == pins[i + 1]

\* The integer cell of a pin: (pin.x as i32, pin.y as i32), lib.rs:130.
Cell(pin) == <<F64AsI32(pin.x), F64AsI32(pin.y)>>

\* The pins argument (a JsValue): a list of pins, or a value that
\* serde_wasm_bindgen::from_value rejects.
PinList(seq) == [is_pin_list |-> TRUE, pins |-> seq]
NotAPinList == [is_pin_list |-> FALSE, pins |-> <<>>]

Shapes == {"Circle", "Square"}
PinCounts == {0} \cup {2^k : k \in 0..MaxPinExp}
FrameSizes == {(k * Scale) \div 2 : k \in 1..MaxFrameHalves}

\* The canvases: <<canvas_width, canvas_height>>.
Canvases == {<<1, 1>>, <<2, 2>>} \cup {<<k, 1>> : k \in 2..MaxStrip}
\* The views: <<zoom_level, offset_x, offset_y>>.
Views ==
    {<<Scale, 0, 0>>,
     <<2 * Scale, -((3 * Scale) \div 2), Scale>>,
     <<Scale \div 2, -Scale, -((3 * Scale) \div 2)>>}
LineCounts == 0..MaxLines

\* Pin sequences handed to generate_string_art: prefixes of two fixed lists.
\* CornerPins are the corner cells of a 2x2 grid first; SkewPins have
\* fractional, negative and outside coordinates.
CornerPins ==
    <<Pin(0, 0), Pin(Scale, 0), Pin(Scale, Scale), Pin(0, Scale),
      Pin(2 * Scale, Scale), Pin(Scale, 2 * Scale)>>
SkewPins ==
    <<Pin((3 * Scale) \div 2, Scale \div 2), Pin(-Scale, Scale),
      Pin(Scale \div 2, (3 * Scale) \div 2), Pin(2 * Scale, 2 * Scale),
      Pin(0, 0), Pin(Scale, -(Scale \div 2))>>
\* The four corners of a 2 by 2 frame, as generate_pins(Square, 4, 2, 2)
\* returns them.
FramePins ==
    <<Pin(0, 0), Pin(2 * Scale, 0), Pin(2 * Scale, 2 * Scale), Pin(0, 2 * Scale)>>
PinInputs ==
    {NotAPinList, PinList(FramePins)}
        \cup {PinList(SubSeq(CornerPins, 1, n)) : n \in 0..MaxPins}
        \cup {PinList(SubSeq(SkewPins, 1, MaxPins - 1))}

-----------------------------------------------------------------------------
(* process_image: crop rectangle, crop, resample, luma *)

RECURSIVE SumSeq(_)
SumSeq(s) == IF Len(s) = 0 THEN 0 ELSE Head(s) + SumSeq(Tail(s))

Clamp(v, lo, hi) == IF v < lo THEN lo ELSE IF v > hi THEN hi ELSE v

\* Faulty variant of CropRect: the crop origin is not clamped again once the
\* crop size is known.
CropRectNoReclamp(original, canvas_width, canvas_height, zoom_level, offset_x, offset_y) ==
    LET original_width == FromInt(original.width)
        original_height == FromInt(original.height)
        x_start0 == FMax(FDiv(-offset_x, zoom_level), 0)
        y_start0 == FMax(FDiv(-offset_y, zoom_level), 0)
        crop_width0 == FMin(FDiv(FromInt(canvas_width), zoom_level), original_width - x_start0)
        crop_height0 == FMin(FDiv(FromInt(canvas_height), zoom_level), original_height - y_start0)
        crop_width == FMax(crop_width0, FromInt(1))
        crop_height == FMax(crop_height0, FromInt(1))
    IN  [x |-> F64AsU32(x_start0), y |-> F64AsU32(y_start0),
         width |-> F64AsU32(crop_width), height |-> F64AsU32(crop_height)]

\* lib.rs:54-84: the source rectangle handed to crop_imm, after the `as u32`
\* casts.  original is the cached image, zoom_level and the offsets are f64.
CropRect(original, canvas_width, canvas_height, zoom_level, offset_x, offset_y) ==
    LET original_width == FromInt(original.width)
        original_height == FromInt(original.height)
        x_start0 == FMax(FDiv(-offset_x, zoom_level), 0)
        y_start0 == FMax(FDiv(-offset_y, zoom_level), 0)
        crop_width0 == FMin(FDiv(FromInt(canvas_width), zoom_level), original_width - x_start0)
        crop_height0 == FMin(FDiv(FromInt(canvas_height), zoom_level), original_height - y_start0)
        crop_width == FMax(crop_width0, FromInt(1))
        crop_height == FMax(crop_height0, FromInt(1))
        x_start == FMin(x_start0, original_width - crop_width)
        y_start == FMin(y_start0, original_height - crop_height)
    IN  [x |-> F64AsU32(x_start), y |-> F64AsU32(y_start),
         width |-> F64AsU32(crop_width), height |-> F64AsU32(crop_height)]

\* DynamicImage::crop_imm: the rectangle is first cut to the image
\* (imageops::crop_dimms), then copied out.
crop_imm(image, x, y, width, height) ==
    LET cx == FMin(x, image.width)
        cy == FMin(y, image.height)
        ch == FMin(height, image.height - cy)
        cw == FMin(width, image.width - cx)
    IN  Image(cw, ch,
              [k \in 1..(cw * ch) |->
                  GetPixel(image, cx + ((k - 1) % cw), cy + ((k - 1) \div cw))])

\* imageops::resize with FilterType::Triangle, one axis: the source samples
\* left..right-1 that feed output sample o when n samples are resampled to
\* m, and the (unnormalised, scaled by 2*max(n,m)) triangle weight of each.
SampleLeft(o, n, m) ==
    LET S == IF n > m THEN n ELSE m
    IN  Clamp(((2 * o + 1) * n - 2 * S) \div (2 * m), 0, n - 1)

SampleRight(o, n, m) ==
    LET S == IF n > m THEN n ELSE m
    IN  Clamp(-((-((2 * o + 1) * n + 2 * S)) \div (2 * m)), SampleLeft(o, n, m) + 1, n)

TriangleWeight(i, o, n, m) ==
    LET S == IF n > m THEN n ELSE m
        w == 2 * S - Abs(2 * m * i - (2 * o + 1) * n + m)
    IN  IF w > 0 THEN w ELSE 0

\* Faulty variant of resize_exact: the cropped image is kept at its size.
resize_exact_skipped(image, nwidth, nheight) == image

\* DynamicImage::resize_exact(nwidth, nheight, Triangle): the vertical pass
\* then the horizontal pass on unrounded samples, each output rounded to the
\* nearest u8 once at the end.
resize_exact(image, nwidth, nheight) ==
    LET n == image.width
        nh == image.height
        Range(lo, hi) == [k \in 1..(hi - lo + 1) |-> lo + k - 1]
        ColSeq(ox) == Range(SampleLeft(ox, n, nwidth), SampleRight(ox, n, nwidth) - 1)
        RowSeq(oy) == Range(SampleLeft(oy, nh, nheight), SampleRight(oy, nh, nheight) - 1)
        WSumX(ox) == SumSeq([k \in DOMAIN ColSeq(ox) |->
                                TriangleWeight(ColSeq(ox)[k], ox, n, nwidth)])
        WSumY(oy) == SumSeq([k \in DOMAIN RowSeq(oy) |->
                                TriangleWeight(RowSeq(oy)[k], oy, nh, nheight)])
        RowAcc(ox, j) == SumSeq([k \in DOMAIN ColSeq(ox) |->
                                TriangleWeight(ColSeq(ox)[k], ox, n, nwidth)
                                    * GetPixel(image, ColSeq(ox)[k], j)])
        Acc(ox, oy) == SumSeq([k \in DOMAIN RowSeq(oy) |->
                                TriangleWeight(RowSeq(oy)[k], oy, nh, nheight)
                                    * RowAcc(ox, RowSeq(oy)[k])])
        Sample(ox, oy) == Clamp(Quot(Acc(ox, oy), WSumX(ox) * WSumY(oy)), 0, 255)
    IN  IF nwidth = n /\ nheight = nh
        THEN image
        ELSE Image(nwidth, nheight,
                   [k \in 1..(nwidth * nheight) |->
                       Sample((k - 1) % nwidth, (k - 1) \div nwidth)])

\* DynamicImage::to_luma8 of an 8-bit luma raster: a copy.
to_luma8(image) == Image(image.width, image.height, image.data)

\* lib.rs:54-90: the grid process_image stores for the cached image and the
\* view parameters.
ProcessedGrid(original, canvas_width, canvas_height, zoom_level, offset_x, offset_y) ==
    LET r == CropRect(original, canvas_width, canvas_height, zoom_level, offset_x, offset_y)
        cropped_image == crop_imm(original, r.x, r.y, r.width, r.height)
        resized_image == resize_exact(cropped_image, canvas_width, canvas_height)
    IN  to_luma8(resized_image)

\* The processed grids of the inputs, computed once.
SourceImages == {load_from_memory(p) : p \in Payloads} \ {None}
GridTable ==
    [original \in SourceImages, canvas \in Canvases, view \in Views |->
        ProcessedGrid(original, canvas[1], canvas[2], view[1], view[2], view[3])]

-----------------------------------------------------------------------------
(* generate_string_art: grid walk, scoring, selection, erasure *)

\* line_drawing::WalkGrid::next's test (0.5 + ix) / nx < (0.5 + iy) / ny in
\* f32: a zero nx makes the left side +inf (never smaller), a zero ny makes
\* the right side +inf.
StepsInX(ix, iy, nx, ny) ==
    IF nx = 0 THEN FALSE
    ELSE IF ny = 0 THEN TRUE
    ELSE (2 * ix + 1) * ny < (2 * iy + 1) * nx

RECURSIVE WalkFrom(_, _, _, _, _, _, _, _)
WalkFrom(px, py, ix, iy, nx, ny, sign_x, sign_y) ==
    IF ix <= nx /\ iy <= ny
    THEN IF StepsInX(ix, iy, nx, ny)
         THEN <<<<px, py>>>> \o WalkFrom(px + sign_x, py, ix + 1, iy, nx, ny, sign_x, sign_y)
         ELSE <<<<px, py>>>> \o WalkFrom(px, py + sign_y, ix, iy + 1, nx, ny, sign_x, sign_y)
    ELSE <<>>

Signum(d) == IF d > 0 THEN 1 ELSE IF d < 0 THEN -1 ELSE 0

\* line_drawing::WalkGrid::new(start, end) collected: the cells of the
\* 4-connected walk from start to end, both included.
WalkGrid(start, end) ==
    LET dx == end[1] - start[1]
        dy == end[2] - start[2]
    IN  WalkFrom(start[1], start[2], 0, 0, Abs(dx), Abs(dy), Signum(dx), Signum(dy))

\* lib.rs:130 / 151: the walk between two pins.
LinePixels(start_pin, end_pin) == WalkGrid(Cell(start_pin), Cell(end_pin))

\* lib.rs:134 / 153: the pixel a walked cell addresses, 0 when outside.
CellIndex(image, c) == PixelIndex(image, I32AsU32(c[1]), I32AsU32(c[2]))

\* lib.rs:131-138: current_score of one candidate line.
LineScore(image, cells) ==
    SumSeq([k \in DOMAIN cells |->
               IF CellIndex(image, cells[k]) = 0
               THEN 0
               ELSE 255 - image.data[CellIndex(image, cells[k])]])

\* Faulty variant of Brighten: the sum taken in u8, wrapping.
BrightenWrapping(v) == (v + 150) % 256

\* Faulty variant of Brighten: the pixel is raised by 100.
BrightenBy100(v) == IF v + 100 < 255 THEN v + 100 ELSE 255

\* lib.rs:155: pixel[0] = (pixel[0] as u16 + 150).min(255) as u8.
Brighten(v) == (IF v + 150 < 255 THEN v + 150 ELSE 255) % 256

\* Faulty variant of EraseLine: nothing is erased.
EraseLineSkipped(image, cells) == image

\* lib.rs:151-157: the image with the cells of one line brightened, in walk
\* order.
RECURSIVE EraseCells(_, _)
EraseCells(image, cells) ==
    IF Len(cells) = 0 THEN image
    ELSE LET idx == CellIndex(image, Head(cells))
             next == IF idx = 0 THEN image
                     ELSE [image EXCEPT !.data[idx] = Brighten(@)]
         IN  EraseCells(next, Tail(cells))

\* Faulty variant of EraseLine: the cell of the start pin is left as it is.
EraseLineButStart(image, cells) == EraseCells(image, Tail(cells))

EraseLine(image, cells) == EraseCells(image, cells)

\* Faulty variant of SkipCandidate: the current pin is a candidate too.
NeverSkipped(i, current_pin_index) == FALSE

\* lib.rs:128: if i == current_pin_index { continue; }
SkipCandidate(i, current_pin_index) == i = current_pin_index

\* Faulty variant of ScanCandidates: a candidate of equal score replaces the
\* best one found so far.
RECURSIVE ScanCandidatesLastWins(_, _, _, _, _, _)
ScanCandidatesLastWins(image, pins, current_pin_index, i, best_next_pin_index, max_score) ==
    IF i >= Len(pins)
    THEN [best_next_pin_index |-> best_next_pin_index, max_score |-> max_score]
    ELSE IF i = current_pin_index
    THEN ScanCandidatesLastWins(image, pins, current_pin_index, i + 1,
                                best_next_pin_index, max_score)
    ELSE LET current_score ==
                 LineScore(image, LinePixels(PinAt(pins, current_pin_index), PinAt(pins, i)))
         IN  IF current_score >= max_score
             THEN ScanCandidatesLastWins(image, pins, current_pin_index, i + 1, i,
                                         current_score)
             ELSE ScanCandidatesLastWins(image, pins, current_pin_index, i + 1,
                                         best_next_pin_index, max_score)

\* lib.rs:127-144: the scan of the candidates from index i on, carrying
\* best_next_pin_index and max_score.
RECURSIVE ScanCandidates(_, _, _, _, _, _)
ScanCandidates(image, pins, current_pin_index, i, best_next_pin_index, max_score) ==
    IF i >= Len(pins)
    THEN [best_next_pin_index |-> best_next_pin_index, max_score |-> max_score]
    ELSE IF SkipCandidate(i, current_pin_index)
    THEN ScanCandidates(image, pins, current_pin_index, i + 1,
                        best_next_pin_index, max_score)
    ELSE LET current_score ==
                 LineScore(image, LinePixels(PinAt(pins, current_pin_index), PinAt(pins, i)))
         IN  IF current_score > max_score
             THEN ScanCandidates(image, pins, current_pin_index, i + 1, i, current_score)
             ELSE ScanCandidates(image, pins, current_pin_index, i + 1,
                                 best_next_pin_index, max_score)

\* lib.rs:121-159: one iteration of the main loop from current_pin_index on
\* image: the pin selected, its score, and the image after the erasure.
Iteration(image, pins, current_pin_index) ==
    LET found == ScanCandidates(image, pins, current_pin_index, 0, 0, -1)
        best == found.best_next_pin_index
    IN  [current_pin_index |-> current_pin_index,
         best_next_pin_index |-> best,
         max_score |-> found.max_score,
         before |-> image,
         after |-> EraseLine(image,
                             LinePixels(PinAt(pins, current_pin_index), PinAt(pins, best)))]

\* Faulty variant of LoopContinues: 0..=num_lines.
LoopRunsOnceMore(done, num_lines) == done <= num_lines

\* lib.rs:120: for _ in 0..num_lines, after `done` iterations.
LoopContinues(done, num_lines) == done < num_lines

\* lib.rs:117-160: the main loop; iters lists the iterations made so far.
RECURSIVE MainLoop(_, _, _, _, _)
MainLoop(image, pins, num_lines, current_pin_index, iters) ==
    IF LoopContinues(Len(iters), num_lines)
    THEN LET it == Iteration(image, pins, current_pin_index)
         IN  MainLoop(it.after, pins, num_lines, it.best_next_pin_index, Append(iters, it))
    ELSE [image |-> image,
          line_sequence |-> [k \in DOMAIN iters |-> iters[k].best_next_pin_index],
          iters |-> iters]

-----------------------------------------------------------------------------
(* The bodies of the public functions, as functions of the global cells *)

\* Faulty variant of NeedsDecode: the bytes are decoded on every call.
AlwaysDecodes(original) == TRUE

\* lib.rs:46: ORIGINAL_IMAGE.lock().is_none()
NeedsDecode(original) == original = None

\* lib.rs:47: load_from_memory(..).map_err(..)? returning early.
DecodeFailed(original, image) ==
    [ok |-> FALSE, err |-> "decode error", original |-> original, image |-> image]

\* Faulty variant of StoredGrid: a stored grid of the requested size is kept.
KeptWhenSameSize(image, grid) ==
    IF image # None /\ image.width = grid.width /\ image.height = grid.height
    THEN image
    ELSE grid

\* lib.rs:90: *IMAGE_DATA.lock() = Some(resized_image.to_luma8()): what the
\* cell holds after the assignment, given what it held (image) and the new
\* grid.
StoredGrid(image, grid) == grid

\* lib.rs:45-93, process_image: what it returns (ok, err) and what the two
\* cells hold afterwards, given what they held before.  The grid is looked up
\* in GridTable, which is ProcessedGrid on the inputs.  (The ok_or of line 52
\* cannot fail: the cell was filled at line 48 or before.)
process_image_result(original, image, image_data, canvas_width, canvas_height, zoom_level, offset_x, offset_y) ==
    LET loaded == IF NeedsDecode(original) THEN load_from_memory(image_data) ELSE original
    IN  IF loaded = None
        THEN DecodeFailed(original, image)
        ELSE [ok |-> TRUE, err |-> "", original |-> loaded,
              image |-> StoredGrid(image,
                                   GridTable[loaded, <<canvas_width, canvas_height>>,
                                             <<zoom_level, offset_x, offset_y>>])]

\* Faulty variant of GenFailed: the grid is taken out of the cell.
GenFailedTakingGrid(err, image) ==
    [ok |-> FALSE, err |-> err, value |-> <<>>, image |-> None, iters |-> <<>>]

\* lib.rs:109-114: the early returns of generate_string_art.
GenFailed(err, image) ==
    [ok |-> FALSE, err |-> err, value |-> <<>>, image |-> image, iters |-> <<>>]

\* Faulty variant of generate_string_art_result: current_pin_index outlives
\* the call, so that a call starts from the pin the previous call ended on.
generate_string_art_result_resuming(image, pins, num_lines) ==
    IF image = None THEN GenFailed("Image not loaded", image)
    ELSE IF ~pins.is_pin_list THEN GenFailed("invalid pins", image)
    ELSE IF Len(pins.pins) = 0 THEN GenFailed("No pins provided", image)
    ELSE LET resumes == /\ call.op = "generate_string_art"
                        /\ call.ok
                        /\ Len(call.value) > 0
                        /\ call.value[Len(call.value)] < Len(pins.pins)
             r == MainLoop(image, pins.pins, num_lines,
                           IF resumes THEN call.value[Len(call.value)] ELSE 0, <<>>)
         IN  [ok |-> TRUE, err |-> "", value |-> r.line_sequence,
              image |-> r.image, iters |-> r.iters]

\* Faulty variant of generate_string_art_result: the emptiness test is made
\* only when the loop is about to run.
generate_string_art_result_lazy(image, pins, num_lines) ==
    IF image = None THEN GenFailed("Image not loaded", image)
    ELSE IF ~pins.is_pin_list THEN GenFailed("invalid pins", image)
    ELSE IF num_lines > 0 /\ Len(pins.pins) = 0 THEN GenFailed("No pins provided", image)
    ELSE LET r == MainLoop(image, pins.pins, num_lines, 0, <<>>)
         IN  [ok |-> TRUE, err |-> "", value |-> r.line_sequence,
              image |-> r.image, iters |-> r.iters]

\* lib.rs:106-163, generate_string_art: what it returns (ok, err, value) and
\* what IMAGE_DATA holds afterwards; iters is the record of its iterations.
generate_string_art_result(image, pins, num_lines) ==
    IF image = None THEN GenFailed("Image not loaded", image)
    ELSE IF ~pins.is_pin_list THEN GenFailed("invalid pins", image)
    ELSE IF Len(pins.pins) = 0 THEN GenFailed("No pins provided", image)
    ELSE LET r == MainLoop(image, pins.pins, num_lines, 0, <<>>)
         IN  [ok |-> TRUE, err |-> "", value |-> r.line_sequence,
              image |-> r.image, iters |-> r.iters]

-----------------------------------------------------------------------------
(* generate_pins *)

\* cos and sin of k eighths of a turn, rounded to the resolution.
Cos8(k) ==
    CASE k % 8 = 0 -> Scale
      [] k % 8 \in {1, 7} -> Quot(Scale * 70711, 100000)
      [] k % 8 \in {2, 6} -> 0
      [] k % 8 \in {3, 5} -> -Quot(Scale * 70711, 100000)
      [] OTHER -> -Scale

Sin8(k) == Cos8(k + 6)

\* lib.rs:167-181.  The angle 2*PI*i/num_pins is held as the number of
\* eighths of a turn (num_pins is 1, 2, 4 or 8).
generate_circular_pins(num_pins, width, height) ==
    LET center_x == FDiv(width, FromInt(2))
        center_y == FDiv(height, FromInt(2))
        radius == FMin(FDiv(width, FromInt(2)), FDiv(height, FromInt(2)))
    IN  [k \in 1..num_pins |->
            LET angle8 == (8 * (k - 1)) \div num_pins
            IN  Pin(center_x + FMul(radius, Cos8(angle8)),
                    center_y + FMul(radius, Sin8(angle8)))]

\* Faulty variant of generate_square_pins: the bottom and left edges are
\* walked in the direction of the top and right edges.
generate_square_pins_unmirrored(num_pins, width, height) ==
    LET perimeter == 2 * (width + height)
    IN  [k \in 1..num_pins |->
            LET distance == Quot(perimeter * (k - 1), num_pins)
            IN  IF distance < width
                THEN Pin(distance, 0)
                ELSE IF distance < width + height
                THEN Pin(width, distance - width)
                ELSE IF distance < 2 * width + height
                THEN Pin(distance - width - height, height)
                ELSE Pin(0, distance - 2 * width - height)]

\* lib.rs:183-208.
generate_square_pins(num_pins, width, height) ==
    LET perimeter == 2 * (width + height)
    IN  [k \in 1..num_pins |->
            LET distance == Quot(perimeter * (k - 1), num_pins)
            IN  IF distance < width
                THEN Pin(distance, 0)
                ELSE IF distance < width + height
                THEN Pin(width, distance - width)
                ELSE IF distance < 2 * width + height
                THEN Pin(width - (distance - width - height), height)
                ELSE Pin(0, height - (distance - 2 * width - height))]

\* lib.rs:96-103.
generate_pins_result(shape, num_pins, width, height) ==
    [ok |-> TRUE, err |-> "",
     value |-> IF shape = "Circle"
               THEN generate_circular_pins(num_pins, width, height)
               ELSE generate_square_pins(num_pins, width, height)]

-----------------------------------------------------------------------------
(* The state machine *)

\* The number of iterations of a call that changed the value of pixel k
\* (lib.rs:155 is the only write).
ChangesIn(iters, k) ==
    Cardinality({i \in DOMAIN iters : iters[i].after.data[k] # iters[i].before.data[k]})

Init ==
    /\ ORIGINAL_IMAGE = None
    /\ IMAGE_DATA = None
    /\ call = [op |-> "none", ok |-> TRUE]
    /\ history = [changed |-> FALSE, erased |-> FALSE, repeated |-> FALSE,
                  fresh |-> FALSE, replaced_erased |-> FALSE,
                  requested |-> None, writes |-> <<>>, twin |-> None]

process_image(image_data, canvas_width, canvas_height, zoom_level, offset_x, offset_y) ==
    \E r \in {process_image_result(ORIGINAL_IMAGE, IMAGE_DATA, image_data, canvas_width,
                                   canvas_height, zoom_level, offset_x, offset_y)} :
        /\ ORIGINAL_IMAGE' = r.original
        /\ IMAGE_DATA' = r.image
        /\ call' = [op |-> "process_image", image_data |-> image_data,
                    canvas_width |-> canvas_width, canvas_height |-> canvas_height,
                    zoom_level |-> zoom_level, offset_x |-> offset_x, offset_y |-> offset_y,
                    ok |-> r.ok, err |-> r.err]
        /\ history' = [changed |-> r.image # IMAGE_DATA,
                       erased |-> IF r.ok THEN FALSE ELSE history.erased,
                       repeated |-> FALSE,
                       fresh |-> FALSE,
                       replaced_erased |-> IF r.ok THEN history.erased
                                           ELSE history.replaced_erased,
                       requested |-> [width |-> canvas_width, height |-> canvas_height],
                       writes |-> IF r.ok THEN [k \in DOMAIN r.image.data |-> 0]
                                  ELSE history.writes,
                       twin |-> history.twin]

generate_string_art(pins, num_lines) ==
    \E r \in {generate_string_art_result(IMAGE_DATA, pins, num_lines)} :
        /\ IMAGE_DATA' = r.image
        /\ UNCHANGED ORIGINAL_IMAGE
        /\ call' = [op |-> "generate_string_art", pins |-> pins, num_lines |-> num_lines,
                    ok |-> r.ok, err |-> r.err, value |-> r.value, iters |-> r.iters]
        /\ history' = [changed |-> r.image # IMAGE_DATA,
                       erased |-> history.erased \/ r.image # IMAGE_DATA,
                       repeated |-> /\ r.ok
                                    /\ call.op = "generate_string_art"
                                    /\ call.ok
                                    /\ call.pins = pins
                                    /\ call.num_lines = num_lines,
                       fresh |-> r.ok /\ call.op = "process_image" /\ call.ok,
                       replaced_erased |-> history.replaced_erased,
                       requested |-> history.requested,
                       writes |-> IF r.ok
                                  THEN [k \in DOMAIN history.writes |->
                                           history.writes[k] + ChangesIn(r.iters, k)]
                                  ELSE history.writes,
                       twin |-> IF /\ history.twin # None
                                   /\ r.ok
                                   /\ pins = history.twin.pins
                                   /\ num_lines = history.twin.num_lines
                                THEN [pins |-> pins, num_lines |-> num_lines, seen |-> TRUE,
                                      again |-> /\ history.twin.seen
                                                /\ IMAGE_DATA = history.twin.before,
                                      before |-> IMAGE_DATA, value |-> r.value,
                                      after |-> r.image]
                                ELSE history.twin]

generate_pins(shape, num_pins, width, height) ==
    \E r \in {generate_pins_result(shape, num_pins, width, height)} :
        /\ call' = [op |-> "generate_pins", shape |-> shape, num_pins |-> num_pins,
                    width |-> width, height |-> height,
                    ok |-> r.ok, err |-> r.err, value |-> r.value]
        /\ UNCHANGED <<ORIGINAL_IMAGE, IMAGE_DATA, history>>

Next ==
    \/ \E image_data \in Payloads, canvas \in Canvases, view \in Views :
          process_image(image_data, canvas[1], canvas[2], view[1], view[2], view[3])
    \/ \E pins \in PinInputs, num_lines \in LineCounts :
          generate_string_art(pins, num_lines)

Spec == Init /\ [][Next]_vars

\* generate_pins reads and writes neither cell: its claims are checked on the
\* calls alone.
NextPins ==
    \E shape \in Shapes, num_pins \in PinCounts, width \in FrameSizes, height \in FrameSizes :
        generate_pins(shape, num_pins, width, height)

SpecPins == Init /\ [][NextPins]_vars

\* Two runs of generate_string_art compared: the arguments of the run to
\* watch are drawn at the start, and history.twin keeps the grid the last
\* successful call of these arguments started from, what it returned, the
\* grid it left, and whether the call of these arguments before it had
\* started from the same grid.
TwinCanvases == {<<1, 1>>, <<2, 1>>}
TwinPinInputs ==
    {PinList(SubSeq(CornerPins, 1, 3)), PinList(SubSeq(CornerPins, 5, 6)),
     PinList(SubSeq(SkewPins, 1, 3))}
TwinLineCounts == {1, MaxLines}

InitTwin ==
    /\ ORIGINAL_IMAGE = None
    /\ IMAGE_DATA = None
    /\ call = [op |-> "none", ok |-> TRUE]
    /\ \E pins \in TwinPinInputs, num_lines \in TwinLineCounts :
          history = [changed |-> FALSE, erased |-> FALSE, repeated |-> FALSE,
                     fresh |-> FALSE, replaced_erased |-> FALSE,
                     requested |-> None, writes |-> <<>>,
                     twin |-> [pins |-> pins, num_lines |-> num_lines, seen |-> FALSE,
                               again |-> FALSE,
                               before |-> None, value |-> <<>>, after |-> None]]

NextTwin ==
    \/ \E image_data \in Payloads, canvas \in TwinCanvases, view \in Views :
          process_image(image_data, canvas[1], canvas[2], view[1], view[2], view[3])
    \/ \E pins \in TwinPinInputs, num_lines \in TwinLineCounts :
          generate_string_art(pins, num_lines)

SpecTwin == InitTwin /\ [][NextTwin]_vars

\* The crop step of process_image (lib.rs:54-84) on its own, over more
\* sources, canvases and views than Next draws: the rectangle computed for a
\* cached image of the given size, and the size of what crop_imm cuts out.
CropSources == {<<w, h>> : w \in 1..3, h \in 1..3}
CropCanvases == {<<w, h>> : w \in 0..3, h \in 0..3}
CropZooms == {Scale \div 4, Scale \div 2, Scale, 2 * Scale, 4 * Scale}
CropOffsets == {(k * Scale) \div 2 : k \in {-6, -3, -1, 0, 1, 2, 5}}

\* The arguments of one crop step, drawn before it runs.
InitCrop ==
    /\ ORIGINAL_IMAGE = None
    /\ IMAGE_DATA = None
    /\ history = [changed |-> FALSE, erased |-> FALSE, repeated |-> FALSE,
                  fresh |-> FALSE, replaced_erased |-> FALSE,
                  requested |-> None, writes |-> <<>>, twin |-> None]
    /\ \E source \in CropSources, canvas \in CropCanvases, zoom_level \in CropZooms,
          offset_x \in CropOffsets, offset_y \in CropOffsets :
           call = [op |-> "crop_args", ok |-> TRUE,
                   original_width |-> source[1], original_height |-> source[2],
                   canvas_width |-> canvas[1], canvas_height |-> canvas[2],
                   zoom_level |-> zoom_level, offset_x |-> offset_x, offset_y |-> offset_y]

crop_step ==
    /\ call.op = "crop_args"
    /\ \E original \in {Image(call.original_width, call.original_height,
                               [k \in 1..(call.original_width * call.original_height) |->
                                   (37 * k) % 256])} :
          \E r \in {CropRect(original, call.canvas_width, call.canvas_height,
                              call.zoom_level, call.offset_x, call.offset_y)} :
              \E cropped_image \in {crop_imm(original, r.x, r.y, r.width, r.height)} :
                  call' = [op |-> "crop", ok |-> TRUE,
                           original_width |-> call.original_width,
                           original_height |-> call.original_height,
                           canvas_width |-> call.canvas_width,
                           canvas_height |-> call.canvas_height,
                           zoom_level |-> call.zoom_level,
                           offset_x |-> call.offset_x, offset_y |-> call.offset_y,
                           crop_x |-> r.x, crop_y |-> r.y,
                           crop_width |-> r.width, crop_height |-> r.height,
                           cropped_width |-> cropped_image.width,
                           cropped_height |-> cropped_image.height]
    /\ UNCHANGED <<ORIGINAL_IMAGE, IMAGE_DATA, history>>

NextCrop == crop_step

SpecCrop == InitCrop /\ [][NextCrop]_vars

-----------------------------------------------------------------------------
(* Properties *)

IsGen == call.op = "generate_string_art"
IsProcess == call.op = "process_image"
IsGenStep == call'.op = "generate_string_art"
IsProcessStep == call'.op = "process_image"
CellsUnchanged == IMAGE_DATA' = IMAGE_DATA /\ ORIGINAL_IMAGE' = ORIGINAL_IMAGE

\* The grid of the cached image `original` and the view parameters of the
\* process_image call c.
FreshGrid(original, c) ==
    GridTable[original, <<c.canvas_width, c.canvas_height>>,
              <<c.zoom_level, c.offset_x, c.offset_y>>]

\* The score of candidate j from pin `current` on image.
CandidateScore(image, pins, current, j) ==
    LineScore(image, LinePixels(PinAt(pins, current), PinAt(pins, j)))

\* j is the lowest index, other than current, whose score is maximal.
IsFirstArgMax(image, pins, current, j) ==
    /\ j \in 0..(Len(pins) - 1)
    /\ j # current
    /\ \A k \in (0..(Len(pins) - 1)) \ {current} :
          /\ CandidateScore(image, pins, current, k) <= CandidateScore(image, pins, current, j)
          /\ k < j => CandidateScore(image, pins, current, k)
                          < CandidateScore(image, pins, current, j)

\* after is before with exactly the in-bounds cells of the walk from pin a to
\* pin b raised by 150, saturating at 255.
IsErasureOf(before, after, pins, a, b) ==
    LET cells == LinePixels(PinAt(pins, a), PinAt(pins, b))
        hit == {CellIndex(before, cells[k]) : k \in DOMAIN cells}
    IN  /\ after.width = before.width
        /\ after.height = before.height
        /\ DOMAIN after.data = DOMAIN before.data
        /\ \A idx \in DOMAIN before.data :
              after.data[idx] = IF idx \in hit
                                THEN (IF before.data[idx] + 150 > 255 THEN 255
                                      ELSE before.data[idx] + 150)
                                ELSE before.data[idx]

\* C1: in every successful generate_string_art call, one pin or more, the
\* index appended at each iteration differs from the current pin index of
\* that iteration (no self-loop segment).
C1_NoSelfLoop ==
    (IsGen /\ call.ok) =>
        \A k \in DOMAIN call.iters :
            call.iters[k].best_next_pin_index # call.iters[k].current_pin_index

\* C2 as stated: two consecutive generate_string_art calls with the same pins
\* and the same num_lines >= 1 return different paths.
C2_ConsecutivePathsDiffer ==
    [][(/\ IsGen /\ call.ok
        /\ IsGenStep /\ call'.ok
        /\ call'.pins = call.pins
        /\ call'.num_lines = call.num_lines
        /\ call.num_lines >= 1)
            => call'.value # call.value]_vars

\* C2, amended: two consecutive generate_string_art calls with the same pins
\* and the same num_lines >= 1 return different paths only if there are at
\* least three pins and the first call changed some pixel of the grid; with
\* one or two pins, or when the first call changed no pixel, the two paths
\* are equal.
C2_PathsDifferOnlyAfterChange ==
    [][(/\ IsGen /\ call.ok
        /\ IsGenStep /\ call'.ok
        /\ call'.pins = call.pins
        /\ call'.num_lines = call.num_lines
        /\ call.num_lines >= 1)
            => /\ Len(call.pins.pins) <= 2 => call'.value = call.value
               /\ call'.value # call.value => history.changed]_vars

\* Two consecutive calls with the same two pins: the second one erased again.
C2_Witness ==
    /\ IsGen /\ call.ok
    /\ history.repeated
    /\ history.changed
    /\ call.num_lines >= 1
    /\ Len(call.pins.pins) = 2

\* C3: generate_pins with a pin count of 0 fails, for both shapes and every
\* width and height.
C3_ZeroPinsRejected ==
    (call.op = "generate_pins" /\ call.num_pins = 0) => ~call.ok

\* C4: generate_string_art fails, with "Image not loaded" or "No pins
\* provided", whenever no grid is stored or the pin list is empty, for every
\* num_lines; it then returns no path and leaves both cells unchanged.
C4_PreconditionFailure ==
    [][(/\ IsGenStep
        /\ \/ IMAGE_DATA = None
           \/ (call'.pins.is_pin_list /\ Len(call'.pins.pins) = 0))
            => /\ ~call'.ok
               /\ call'.err = IF IMAGE_DATA = None THEN "Image not loaded"
                              ELSE "No pins provided"
               /\ call'.value = <<>>
               /\ CellsUnchanged]_vars

\* A call with an empty pin list and num_lines = 0 on a stored grid failed.
C4_Witness ==
    /\ IsGen /\ ~call.ok
    /\ call.err = "No pins provided"
    /\ call.num_lines = 0
    /\ IMAGE_DATA # None

\* C5: a successful generate_string_art with num_lines = 0 returns the empty
\* sequence and leaves the grid (pixels and dimensions) and the cached source
\* image unchanged.
C5_ZeroLinesIsNoOp ==
    [][(IsGenStep /\ call'.ok /\ call'.num_lines = 0)
            => /\ call'.value = <<>>
               /\ call'.iters = <<>>
               /\ CellsUnchanged]_vars

\* A num_lines = 0 call succeeded on a grid that still has a dark pixel.
C5_Witness ==
    /\ IsGen /\ call.ok
    /\ call.num_lines = 0
    /\ call.value = <<>>
    /\ Len(call.pins.pins) >= 2
    /\ \E k \in DOMAIN IMAGE_DATA.data : IMAGE_DATA.data[k] < 105

\* C6: every pixel of the stored grid is in 0..255, and no erasure lowers a
\* pixel: each iteration leaves every pixel at least as bright as it found
\* it, and at most 255.
C6_PixelsSaturate ==
    /\ IMAGE_DATA # None =>
          \A k \in DOMAIN IMAGE_DATA.data : IMAGE_DATA.data[k] \in 0..255
    /\ (IsGen /\ call.ok) =>
          \A i \in DOMAIN call.iters :
              \A k \in DOMAIN call.iters[i].before.data :
                  /\ call.iters[i].after.data[k] >= call.iters[i].before.data[k]
                  /\ call.iters[i].after.data[k] <= 255

\* An erasure met a pixel above 105 and below 255 and left it at 255.
C6_Witness ==
    /\ IsGen /\ call.ok
    /\ \E i \in DOMAIN call.iters :
          \E k \in DOMAIN call.iters[i].before.data :
              /\ call.iters[i].before.data[k] > 105
              /\ call.iters[i].before.data[k] < 255
              /\ call.iters[i].after.data[k] = 255

\* The scenario of C7: an all-black 2x2 grid, four pins at the four corners
\* (of the pixel grid, or of the 2 by 2 frame), num_lines = 2.
InScenario ==
    /\ IsGen /\ call.ok
    /\ call.pins \in {PinList(SubSeq(CornerPins, 1, 4)), PinList(FramePins)}
    /\ call.num_lines = 2
    /\ call.iters[1].before = Image(2, 2, <<0, 0, 0, 0>>)

\* C7 as stated: in the scenario, iteration 1 selects from pin 0 the lowest
\* index of maximal score and erases that segment, and iteration 2 does not
\* select pin 0.
C7_SecondNeverPinZero ==
    InScenario =>
        /\ IsFirstArgMax(call.iters[1].before, call.pins.pins, 0,
                         call.iters[1].best_next_pin_index)
        /\ call.iters[2].best_next_pin_index # 0

\* C7, amended: in the scenario, iteration 1 selects from pin 0 the lowest
\* index of maximal score (pin 2, score 765) and erases that segment;
\* iteration 2 starts from pin 2, does not select pin 2 again, and scores the
\* candidates on the grid as erased by iteration 1: it selects pin 0, with
\* score 465 (765 on the grid before the erasure).
C7_SecondScoresErasedGrid ==
    InScenario =>
        LET pins == call.pins.pins
            it1 == call.iters[1]
            it2 == call.iters[2]
        IN  /\ it1.current_pin_index = 0
            /\ IsFirstArgMax(it1.before, pins, 0, it1.best_next_pin_index)
            /\ it1.best_next_pin_index = 2
            /\ it1.max_score = 765
            /\ IsErasureOf(it1.before, it1.after, pins, 0, it1.best_next_pin_index)
            /\ it2.current_pin_index = it1.best_next_pin_index
            /\ it2.before = it1.after
            /\ it2.best_next_pin_index # it2.current_pin_index
            /\ IsFirstArgMax(it1.after, pins, it2.current_pin_index, it2.best_next_pin_index)
            /\ it2.max_score = CandidateScore(it1.after, pins, it2.current_pin_index,
                                              it2.best_next_pin_index)
            /\ it2.max_score = 465
            /\ CandidateScore(it1.before, pins, it2.current_pin_index,
                              it2.best_next_pin_index) = 765
            /\ call.value = <<2, 0>>

\* The scenario was run, on the pixel-grid corners.
C7_Witness ==
    /\ InScenario
    /\ call.pins = PinList(SubSeq(CornerPins, 1, 4))
    /\ Len(call.value) = 2

\* C8: once a source image is cached, every process_image call succeeds
\* whatever its bytes, leaves the cached image as it is, and stores the grid
\* computed from the cached image and the call's view parameters.
C8_CachedImageIsReused ==
    [][(IsProcessStep /\ ORIGINAL_IMAGE # None)
            => /\ call'.ok
               /\ ORIGINAL_IMAGE' = ORIGINAL_IMAGE
               /\ IMAGE_DATA' = FreshGrid(ORIGINAL_IMAGE, call')]_vars

\* A process_image call handed undecodable bytes succeeded on the cache.
C8_Witness ==
    /\ IsProcess /\ call.ok
    /\ load_from_memory(call.image_data) = None
    /\ ORIGINAL_IMAGE # None

\* C9: a failing process_image or generate_string_art call leaves the stored
\* grid and the cached source image exactly as they were.
C9_FailuresAreAtomic ==
    [][((IsProcessStep \/ IsGenStep) /\ ~call'.ok) => CellsUnchanged]_vars

\* generate_string_art failed on a stored grid that carries erasures.
C9_Witness ==
    /\ IsGen /\ ~call.ok
    /\ IMAGE_DATA # None
    /\ history.erased

\* C10: a successful process_image stores the grid of the cached image and
\* its view parameters, whatever grid was stored before; the
\* generate_string_art call that follows it returns the path planned on
\* that fresh grid.
C10_ProcessReplacesGrid ==
    [][/\ (IsProcessStep /\ call'.ok)
            => IMAGE_DATA' = FreshGrid(ORIGINAL_IMAGE', call')
       /\ (IsProcess /\ call.ok /\ IsGenStep /\ call'.ok)
            => call'.value =
                  MainLoop(FreshGrid(ORIGINAL_IMAGE, call), call'.pins.pins,
                           call'.num_lines, 0, <<>>).line_sequence]_vars

\* A path was planned right after a process_image that replaced an erased
\* grid.
C10_Witness ==
    /\ IsGen /\ call.ok
    /\ history.fresh
    /\ history.replaced_erased
    /\ call.num_lines >= 1
    /\ history.changed


\* The points of the frame's border at arc length d from the top-left corner,
\* clockwise: top edge, right edge, bottom edge, left edge.  On a corner two
\* edges give the same point.
PerimeterPoints(d, width, height) ==
    (IF 0 <= d /\ d <= width THEN {Pin(d, 0)} ELSE {})
        \cup (IF width <= d /\ d <= width + height
              THEN {Pin(width, d - width)} ELSE {})
        \cup (IF width + height <= d /\ d <= 2 * width + height
              THEN {Pin(2 * width + height - d, height)} ELSE {})
        \cup (IF 2 * width + height <= d /\ d <= 2 * (width + height)
              THEN {Pin(0, 2 * (width + height) - d)} ELSE {})

IsSquareCall ==
    /\ call.op = "generate_pins"
    /\ call.shape = "Square"
    /\ call.num_pins >= 1

\* C11: a Square layout of count >= 1 pins on a frame of positive width and
\* height has exactly count pins, pin 0 at (0,0), pin i at arc length
\* 2*(width+height)*i/count clockwise from the top-left corner, and every
\* pin within [0,width] x [0,height].
C11_SquarePinsOnPerimeter ==
    IsSquareCall =>
        /\ call.ok
        /\ Len(call.value) = call.num_pins
        /\ call.value[1] = Pin(0, 0)
        /\ \A i \in 0..(call.num_pins - 1) :
              LET d == (2 * (call.width + call.height) * i) \div call.num_pins
              IN  /\ d * call.num_pins = 2 * (call.width + call.height) * i
                  /\ PinAt(call.value, i) \in PerimeterPoints(d, call.width, call.height)
                  /\ 0 <= PinAt(call.value, i).x /\ PinAt(call.value, i).x <= call.width
                  /\ 0 <= PinAt(call.value, i).y /\ PinAt(call.value, i).y <= call.height

\* A Square layout of four pins on a frame wider than high: pin 1 is inside
\* the top edge, pin 2 on the bottom-right corner, pin 3 inside the bottom
\* edge.
C11_Witness ==
    /\ IsSquareCall
    /\ call.num_pins = 4
    /\ call.width > call.height
    /\ PinAt(call.value, 1).y = 0
    /\ PinAt(call.value, 2) = Pin(call.width, call.height)
    /\ PinAt(call.value, 3).y = call.height
    /\ 0 < PinAt(call.value, 3).x /\ PinAt(call.value, 3).x < call.width

\* The last call was a successful generate_string_art call on at least n pins.
GenOnAtLeast(n) == IsGen /\ call.ok /\ Len(call.pins.pins) >= n

\* C12: at every iteration of a generate_string_art call on at least 2 pins,
\* the selected index is the lowest index, other than the current one, whose
\* score is maximal, and the score kept is that maximum; so also when the
\* maximum is 0.
C12_LowestIndexOfMaximalScore ==
    GenOnAtLeast(2) =>
        \A i \in DOMAIN call.iters :
            LET it == call.iters[i]
            IN  /\ IsFirstArgMax(it.before, call.pins.pins, it.current_pin_index,
                                 it.best_next_pin_index)
                /\ it.max_score = CandidateScore(it.before, call.pins.pins,
                                                 it.current_pin_index,
                                                 it.best_next_pin_index)

\* A call on at least 3 pins with an iteration whose candidates all score 0
\* and that selects pin 0 from another pin.
C12_Witness ==
    /\ GenOnAtLeast(3)
    /\ \E i \in DOMAIN call.iters :
          LET it == call.iters[i]
          IN  /\ it.max_score = 0
              /\ it.current_pin_index # 0
              /\ it.best_next_pin_index = 0
              /\ \A k \in (0..(Len(call.pins.pins) - 1)) \ {it.current_pin_index} :
                    CandidateScore(it.before, call.pins.pins, it.current_pin_index, k) = 0

\* A coordinate truncated toward zero to an integer.
Trunc(v) == IF v >= 0 THEN v \div Scale ELSE -((-v) \div Scale)

\* The cell c, of signed integer coordinates, lies inside the grid.
InGrid(image, c) ==
    /\ 0 <= c[1] /\ c[1] < image.width
    /\ 0 <= c[2] /\ c[2] < image.height

\* The cells of the grid-walk between the truncated coordinates of pins a, b.
WalkOf(pins, a, b) ==
    WalkGrid(<<Trunc(PinAt(pins, a).x), Trunc(PinAt(pins, a).y)>>,
             <<Trunc(PinAt(pins, b).x), Trunc(PinAt(pins, b).y)>>)

\* The sum of 255 - intensity over the cells of the walk inside the grid.
DarknessOnWalk(image, cells) ==
    SumSeq([k \in DOMAIN cells |->
               IF InGrid(image, cells[k])
               THEN 255 - image.data[cells[k][2] * image.width + cells[k][1] + 1]
               ELSE 0])

\* C13: at every iteration the score of every candidate j is the sum of
\* 255 - intensity over the cells, inside the grid, of the walk from the
\* truncated coordinates of the current pin to those of pin j; the erasure
\* writes no pixel other than those of cells of the winning walk inside the
\* grid, and leaves the grid its size.
C13_ScoreSkipsOutside ==
    GenOnAtLeast(1) =>
        \A i \in DOMAIN call.iters :
            LET it == call.iters[i]
                pins == call.pins.pins
                won == WalkOf(pins, it.current_pin_index, it.best_next_pin_index)
            IN  /\ \A j \in (0..(Len(pins) - 1)) \ {it.current_pin_index} :
                      /\ LineScore(it.before,
                                   LinePixels(PinAt(pins, it.current_pin_index),
                                              PinAt(pins, j)))
                             = DarknessOnWalk(it.before, WalkOf(pins, it.current_pin_index, j))
                      /\ it.max_score
                             >= DarknessOnWalk(it.before, WalkOf(pins, it.current_pin_index, j))
                /\ Len(pins) >= 2 => it.max_score = DarknessOnWalk(it.before, won)
                /\ DOMAIN it.after.data = 1..(it.before.width * it.before.height)
                /\ \A idx \in DOMAIN it.before.data :
                      it.after.data[idx] # it.before.data[idx]
                          => \E k \in DOMAIN won :
                                /\ InGrid(it.before, won[k])
                                /\ idx = won[k][2] * it.before.width + won[k][1] + 1

\* An iteration whose winning walk has a cell of negative coordinates, a
\* cell beyond the grid's width or height, and cells inside the grid that
\* give it a positive score and are erased.
C13_Witness ==
    /\ GenOnAtLeast(2)
    /\ \E i \in DOMAIN call.iters :
          LET it == call.iters[i]
              won == WalkOf(call.pins.pins, it.current_pin_index, it.best_next_pin_index)
          IN  /\ it.max_score > 0
              /\ it.after # it.before
              /\ \E k \in DOMAIN won : won[k][1] < 0 \/ won[k][2] < 0
              /\ \E k \in DOMAIN won :
                    won[k][1] >= it.before.width \/ won[k][2] >= it.before.height

\* The indices in data of the cells of a walk that lie inside the grid.
HitOnWalk(image, cells) ==
    {cells[k][2] * image.width + cells[k][1] + 1 :
        k \in {n \in DOMAIN cells : InGrid(image, cells[n])}}

\* after is before with exactly the pixels of the walk's cells inside the
\* grid set from v to min(v + 150, 255), and of the same size.
ErasesExactly(before, after, cells) ==
    /\ after.width = before.width
    /\ after.height = before.height
    /\ DOMAIN after.data = DOMAIN before.data
    /\ \A idx \in DOMAIN before.data :
          after.data[idx] =
              IF idx \in HitOnWalk(before, cells)
              THEN (IF before.data[idx] + 150 < 255 THEN before.data[idx] + 150 ELSE 255)
              ELSE before.data[idx]

\* C14: in a successful generate_string_art call the first iteration works on
\* the stored grid, each iteration changes exactly the pixels of the winning
\* walk's cells inside the grid, from v to min(v + 150, 255), the next
\* iteration works on the grid so left, and the grid left by the last
\* iteration is the one stored: nothing but the erasures changes a pixel, and
\* the size of the grid never changes.
C14_IterationErasesWinningWalk ==
    /\ [](GenOnAtLeast(1) =>
             LET iters == call.iters
                 pins == call.pins.pins
             IN  /\ Len(iters) > 0 => iters[Len(iters)].after = IMAGE_DATA
                 /\ \A i \in DOMAIN iters :
                       /\ ErasesExactly(iters[i].before, iters[i].after,
                                        WalkOf(pins, iters[i].current_pin_index,
                                               iters[i].best_next_pin_index))
                       /\ i > 1 => iters[i].before = iters[i - 1].after)
    /\ [][(IsGenStep /\ call'.ok)
             => /\ Len(call'.iters) = 0 => IMAGE_DATA' = IMAGE_DATA
                /\ Len(call'.iters) > 0 => call'.iters[1].before = IMAGE_DATA
                /\ IMAGE_DATA'.width = IMAGE_DATA.width
                /\ IMAGE_DATA'.height = IMAGE_DATA.height]_vars

\* A call of two iterations on a grid of more than one pixel: one iteration
\* raises a pixel by 150, one saturates a pixel at 255, and a pixel below 255
\* off the winning walk keeps its value.
C14_Witness ==
    /\ GenOnAtLeast(2)
    /\ Len(call.iters) = 2
    /\ \E i \in DOMAIN call.iters, k \in DOMAIN call.iters[1].before.data :
          /\ call.iters[i].before.data[k] < 105
          /\ call.iters[i].after.data[k] = call.iters[i].before.data[k] + 150
    /\ \E i \in DOMAIN call.iters, k \in DOMAIN call.iters[1].before.data :
          /\ call.iters[i].before.data[k] \in 106..254
          /\ call.iters[i].after.data[k] = 255
    /\ \E i \in DOMAIN call.iters, k \in DOMAIN call.iters[1].before.data :
          /\ call.iters[i].after # call.iters[i].before
          /\ call.iters[i].before.data[k] < 255
          /\ call.iters[i].after.data[k] = call.iters[i].before.data[k]

\* C15: a successful generate_string_art(pins, num_lines) returns num_lines
\* indices, each in 0..len(pins)-1; its first iteration starts from pin 0,
\* iteration k+1 starts from the pin iteration k selected, and the path lists
\* the pins selected, in order.
C15_PathFollowsIterations ==
    (IsGen /\ call.ok) =>
        /\ Len(call.value) = call.num_lines
        /\ Len(call.iters) = call.num_lines
        /\ \A k \in DOMAIN call.value :
              /\ call.value[k] \in 0..(Len(call.pins.pins) - 1)
              /\ call.value[k] = call.iters[k].best_next_pin_index
              /\ call.iters[k].current_pin_index = IF k = 1 THEN 0 ELSE call.value[k - 1]

\* A call of one line on at least 2 pins that follows a successful call of
\* the same arguments: that call ended on a pin other than pin 0, and this
\* one started from pin 0.
C15_Witness ==
    /\ GenOnAtLeast(2)
    /\ history.repeated
    /\ call.num_lines = 1
    /\ call.iters[1].current_pin_index = 0
    /\ call.value[1] # 0

\* C16: whenever a grid is stored, its width and height are the canvas_width
\* and canvas_height of the most recent process_image request, whether calls
\* of generate_string_art followed it or not; a request that failed left no
\* grid stored, so that no stored grid has another size than the one a failed
\* request asked for.
C16_GridHasRequestedSize ==
    /\ IMAGE_DATA # None =>
          history.requested = [width |-> IMAGE_DATA.width, height |-> IMAGE_DATA.height]
    /\ (IsProcess /\ ~call.ok) => IMAGE_DATA = None

\* A grid of the size of the second of two successful requests, wider than
\* high, after a generate_string_art call that erased pixels of it.
C16_Witness ==
    /\ IsGen /\ call.ok
    /\ history.changed
    /\ history.replaced_erased
    /\ history.requested.width > history.requested.height
    /\ IMAGE_DATA.width = history.requested.width
    /\ IMAGE_DATA.height = history.requested.height

\* C18: for a source of width and height >= 1, a zoom > 0, any offsets and
\* any canvas, the rectangle handed to the crop step has width >= 1,
\* height >= 1, an origin >= 0 and origin + size within the source on both
\* axes, and the crop cuts out exactly that rectangle.
C18_CropRectInsideSource ==
    call.op = "crop" =>
        /\ call.crop_width >= 1
        /\ call.crop_height >= 1
        /\ call.crop_x >= 0
        /\ call.crop_y >= 0
        /\ call.crop_x + call.crop_width <= call.original_width
        /\ call.crop_y + call.crop_height <= call.original_height
        /\ call.cropped_width = call.crop_width
        /\ call.cropped_height = call.crop_height

\* A view panned beyond the right and bottom edges of the source: the size is
\* raised to 1 and the origin is brought back to the last column and row.
C18_Witness ==
    /\ call.op = "crop"
    /\ call.original_width > 1
    /\ call.original_height > 1
    /\ -call.offset_x > call.original_width * call.zoom_level
    /\ -call.offset_y > call.original_height * call.zoom_level
    /\ call.crop_x = call.original_width - 1
    /\ call.crop_y = call.original_height - 1
    /\ call.crop_width = 1
    /\ call.crop_height = 1

\* C19: since the last successful process_image, no pixel of the grid has
\* changed value more than twice, and a pixel that changed twice is 255 (so
\* that the pixels change at most 2 * width * height times in all); a
\* generate_string_art call on a grid whose pixels are all 255 changes
\* nothing; and once a call has left the grid as it was, the same call made
\* again returns the same path and leaves the grid as it was.
C19_ErasuresReachFixedPoint ==
    /\ [](IMAGE_DATA # None =>
             \A k \in DOMAIN IMAGE_DATA.data :
                 /\ history.writes[k] <= 2
                 /\ history.writes[k] = 2 => IMAGE_DATA.data[k] = 255)
    /\ [][(IsGenStep /\ call'.ok)
             => /\ (\A k \in DOMAIN IMAGE_DATA.data : IMAGE_DATA.data[k] = 255)
                       => IMAGE_DATA' = IMAGE_DATA
                /\ (history'.repeated /\ ~history.changed)
                       => /\ call'.value = call.value
                          /\ IMAGE_DATA' = IMAGE_DATA]_vars

\* A call on at least 2 pins, of one line or more, made again after it had
\* left the grid as it was, on a grid with a pixel erased twice and a pixel
\* never erased and below 255.
C19_Witness ==
    /\ GenOnAtLeast(2)
    /\ call.num_lines >= 1
    /\ history.repeated
    /\ ~history.changed
    /\ \E k \in DOMAIN IMAGE_DATA.data : history.writes[k] = 2
    /\ \E k \in DOMAIN IMAGE_DATA.data :
          history.writes[k] = 0 /\ IMAGE_DATA.data[k] < 255

====
